---------------------------- MODULE Spec2Model ----------------------------
(***************************************************************************)
(* State-machine model of src/app.py: a Flask habit tracker over SQLite.   *)
(*                                                                         *)
(* The store is the six tables of init_db; each table is a set of rows     *)
(* (records) with an AUTOINCREMENT id drawn from sqlite_sequence.  The     *)
(* Flask session is one record per browser (client).  Every request        *)
(* handler is one atomic action (one request at a time, commit at the end  *)
(* of the handler).                                                        *)
(*                                                                         *)
(* Conventions                                                             *)
(*   - an optional value (a form field that may be missing, a column that  *)
(*     may be NULL, request.form.get(...) returning None) is a sequence of *)
(*     length 0 (None) or 1 (the value);                                   *)
(*   - a text that the code strips (usernames, habit names) is a sequence  *)
(*     of one-character strings, so that strip() is computed;              *)
(*   - an entry_date is the day's ordinal: date.isoformat() is injective   *)
(*     on days and the code only tests the stored strings for equality;    *)
(*   - hours are whole numbers of a fixed unit (the code stores a float    *)
(*     and only tests it for truthiness and sums it);                      *)
(*   - habit_entries.note/sticker, users.created_at are stored verbatim    *)
(*     and read by no WHERE clause; they are not columns of the model.     *)
(***************************************************************************)
EXTENDS Integers, Sequences, FiniteSets, TLC

VARIABLES
    users,            \* table users: [id, username, password_hash]
    habits,           \* table habits: [id, user_id, name]
    habit_entries,    \* table habit_entries: [id, user_id, habit_id, entry_date, hours]
    reflections,      \* table reflections: [id, user_id, entry_date, reflection_text, win, improvement, mood]
    rewards,          \* table rewards: [id, name, requirement_type, requirement_value, unlocked]
    media,            \* table media: [id, title, type, rating, review]
    sqlite_sequence,  \* per table: the largest id AUTOINCREMENT has handed out
    session,          \* per client: the Flask session, <<>> or <<[user_id, username]>>
    today,            \* the service's clock: date.today() as a day ordinal
    last,             \* the request handled last and how it was answered
    view              \* the data the last request rendered, <<>> for a redirect or an error

vars == <<users, habits, habit_entries, reflections, rewards, media,
          sqlite_sequence, session, today, last, view>>

store == <<habits, habit_entries, reflections, rewards, media>>

-----------------------------------------------------------------------------
(* Bounds of the exploration.                                              *)

\* dashboard specification: ids handed out per table, and days the clock runs
MaxHabits == 2
MaxEntries == 2
\* streak specification
MaxStreakEntries == 4
MaxDay == 3
\* reflection specification
MaxReflectionDay == 1
\* media specification
MaxMedia == 2
\* isolation specification: habits and entries inserted
MaxIsolationRows == 2
\* whole-application specification: rows inserted over all the tables
MaxRows == 1

Clients == {"c1", "c2"}
Tables == {"users", "habits", "habit_entries", "reflections", "rewards", "media"}

None == <<>>
Some(v) == <<v>>
IsSome(o) == Len(o) = 1
Options(S) == {None} \cup {Some(v) : v \in S}

-----------------------------------------------------------------------------
(* Pure helpers.                                                           *)

\* str.strip(): drop leading and trailing whitespace
RECURSIVE LStrip(_)
LStrip(s) == IF s # <<>> /\ Head(s) = " " THEN LStrip(Tail(s)) ELSE s

RECURSIVE RStrip(_)
RStrip(s) == IF s # <<>> /\ s[Len(s)] = " " THEN RStrip(SubSeq(s, 1, Len(s) - 1)) ELSE s

Strip(s) == RStrip(LStrip(s))

\* werkzeug generate_password_hash: a salted digest of the password
generate_password_hash(password, salt) ==
    [salt |-> salt, digest |-> <<salt, password>>]

\* werkzeug check_password_hash: recompute the digest under the stored salt
check_password_hash(pwhash, password) ==
    pwhash.digest = <<pwhash.salt, password>>

\* sum(e["hours"] for e in entries)
RECURSIVE SumHours(_)
SumHours(rows) ==
    IF rows = {} THEN 0
    ELSE LET r == CHOOSE x \in rows : TRUE
         IN  r.hours + SumHours(rows \ {r})

\* cur.lastrowid of an AUTOINCREMENT insert
NextId(table) == sqlite_sequence[table] + 1

Bump(table) == [sqlite_sequence EXCEPT ![table] = @ + 1]

-----------------------------------------------------------------------------
(* Session and the login_required decorator.                               *)

\* session.get("user_id"): 0 stands for None
SessionUserId(c) == IF IsSome(session[c]) THEN session[c][1].user_id ELSE 0

\* a view without the login_required decorator
LoginNotRequired(c) == TRUE

\* login_required lets the view run iff session.get("user_id") is truthy
LoginRequired(c) == SessionUserId(c) # 0

\* what is kept of a request: the route and action, the browser, the user the
\* session named when it arrived (0: none), the form fields and the outcome
Answer(op, c, uid, form, status) ==
    [op |-> op, client |-> c, uid |-> uid, form |-> form, status |-> status]

\* redirect(url_for("login")) of login_required: the view never runs
RedirectLogin(op, c, form) ==
    /\ ~LoginRequired(c)
    /\ last' = Answer(op, c, 0, form, "login")
    /\ view' = None
    /\ UNCHANGED <<users, store, sqlite_sequence, session, today>>

-----------------------------------------------------------------------------
(* Account service.                                                        *)

Signup(c, rawname, password, salt) ==
    LET username == Strip(rawname)
        user_id  == NextId("users")
    IN  /\ view' = None
        /\ UNCHANGED <<store, today>>
        /\ IF username = <<>> \/ password = ""
           THEN /\ last' = Answer("signup", c, 0, None, "required")
                /\ UNCHANGED <<users, sqlite_sequence, session>>
           ELSE IF \E u \in users : u.username = username
           THEN /\ last' = Answer("signup", c, 0, None, "exists")
                /\ UNCHANGED <<users, sqlite_sequence, session>>
           ELSE /\ users' = users \cup
                      {[id |-> user_id, username |-> username,
                        password_hash |-> generate_password_hash(password, salt)]}
                /\ sqlite_sequence' = Bump("users")
                /\ session' = [session EXCEPT ![c] =
                      Some([user_id |-> user_id, username |-> username])]
                /\ last' = Answer("signup", c, user_id, None, "ok")

\* the password check of login, line 170
PasswordVerified(user, password) == check_password_hash(user.password_hash, password)

Login(c, rawname, password) ==
    LET username == Strip(rawname)
        found    == {u \in users : u.username = username}
    IN  /\ view' = None
        /\ UNCHANGED <<users, store, sqlite_sequence, today>>
        /\ IF found = {}
           THEN /\ last' = Answer("login", c, 0, <<rawname, password>>, "no_account")
                /\ UNCHANGED session
           ELSE LET user == CHOOSE u \in found : TRUE
                IN  IF ~PasswordVerified(user, password)
                    THEN /\ last' = Answer("login", c, 0, <<rawname, password>>, "bad_password")
                         /\ UNCHANGED session
                    ELSE /\ session' = [session EXCEPT ![c] =
                               Some([user_id |-> user.id, username |-> user.username])]
                         /\ last' = Answer("login", c, user.id, <<rawname, password>>, "ok")

Logout(c) ==
    /\ session' = [session EXCEPT ![c] = None]
    /\ last' = Answer("logout", c, 0, None, "ok")
    /\ view' = None
    /\ UNCHANGED <<users, store, sqlite_sequence, today>>

-----------------------------------------------------------------------------
(* Habit tracking service: the dashboard view, lines 189-302.              *)

\* SELECT * FROM habits WHERE user_id = ?
HabitsOf(hs, user_id) == {h \in hs : h.user_id = user_id}

\* SELECT * FROM habit_entries WHERE habit_id = ? AND user_id = ? AND entry_date = ?
EntriesOfHabit(entries, habit_id, user_id, day) ==
    {e \in entries : e.habit_id = habit_id /\ e.user_id = user_id /\ e.entry_date = day}

\* habit_total = sum(e["hours"] for e in entries)
HabitTotal(entries, habit_id, user_id, day) ==
    SumHours(EntriesOfHabit(entries, habit_id, user_id, day))

\* habit_data: one element per habit of the user, with that habit's total
HabitData(hs, entries, user_id, day) ==
    {[habit |-> h.id, name |-> h.name, total |-> HabitTotal(entries, h.id, user_id, day)] :
        h \in HabitsOf(hs, user_id)}

\* total_hours += habit_total, over the loop on the user's habits
RECURSIVE SumTotals(_)
SumTotals(data) ==
    IF data = {} THEN 0
    ELSE LET d == CHOOSE x \in data : TRUE
         IN  d.total + SumTotals(data \ {d})

TotalHours(hs, entries, user_id, day) == SumTotals(HabitData(hs, entries, user_id, day))

\* the lookup without its user_id filter
StreakRowAnyUser(entries, user_id, check_date) ==
    \E e \in entries : e.entry_date = check_date

\* SELECT 1 FROM habit_entries WHERE user_id = ? AND entry_date = ? LIMIT 1
StreakRow(entries, user_id, check_date) ==
    \E e \in entries : e.user_id = user_id /\ e.entry_date = check_date

\* the while True loop: one lookup per iteration, walking back one day at a time
RECURSIVE StreakLoop(_, _, _, _)
StreakLoop(entries, user_id, check_date, streak) ==
    IF StreakRow(entries, user_id, check_date)
    THEN StreakLoop(entries, user_id, check_date - 1, streak + 1)
    ELSE streak

\* streak = 0; check_date = date.today(); while True: ...
ComputeStreak(entries, user_id, day) == StreakLoop(entries, user_id, day, 0)

\* SELECT mood FROM reflections WHERE user_id = ? AND entry_date = ?
TodayMood(refl, user_id, day) ==
    LET found == {r \in refl : r.user_id = user_id /\ r.entry_date = day}
    IN  IF found = {} THEN None ELSE Some((CHOOSE r \in found : TRUE).mood)

\* what render_template("dashboard.html", ...) is given
DashboardView(hs, entries, refl, rew, user_id, day) ==
    [page        |-> "dashboard",
     user_id     |-> user_id,
     today       |-> day,
     habit_data  |-> HabitData(hs, entries, user_id, day),
     total_hours |-> TotalHours(hs, entries, user_id, day),
     streak      |-> ComputeStreak(entries, user_id, day),
     today_mood  |-> TodayMood(refl, user_id, day),
     rewards     |-> rew]

\* the part of dashboard() after the POST branch, on the committed tables
Render(user_id) ==
    view' = Some(DashboardView(habits', habit_entries', reflections', rewards',
                               user_id, today))

DashboardGet(c) ==
    \/ RedirectLogin("dashboard", c, None)
    \/ /\ LoginRequired(c)
       /\ UNCHANGED <<users, store, sqlite_sequence, session, today>>
       /\ last' = Answer("dashboard", c, SessionUserId(c), None, "ok")
       /\ Render(SessionUserId(c))

\* table habits without its UNIQUE(user_id, name) constraint
HabitNameNeverTaken(hs, user_id, name) == FALSE

\* UNIQUE(user_id, name) of table habits: the INSERT raises IntegrityError
HabitNameTaken(hs, user_id, name) ==
    \E h \in hs : h.user_id = user_id /\ h.name = name

AddHabit(c, rawname) ==
    \/ RedirectLogin("add_habit", c, <<rawname>>)
    \/ /\ LoginRequired(c)
       /\ LET user_id == SessionUserId(c)
              name    == Strip(rawname)
          IN  /\ IF name # <<>> /\ ~HabitNameTaken(habits, user_id, name)
                 THEN /\ habits' = habits \cup
                            {[id |-> NextId("habits"), user_id |-> user_id, name |-> name]}
                      /\ sqlite_sequence' = Bump("habits")
                      /\ last' = Answer("add_habit", c, user_id, <<rawname>>, "ok")
                 ELSE /\ UNCHANGED <<habits, sqlite_sequence>>
                      /\ last' = Answer("add_habit", c, user_id, <<rawname>>, "ignored")
              /\ UNCHANGED <<users, habit_entries, reflections, rewards, media, session, today>>
              /\ Render(user_id)

\* the DELETE without its user_id filter
DeleteEntriesAnyUser(entries, habit_id, user_id) ==
    {e \in entries : e.habit_id # habit_id}

\* DELETE FROM habit_entries WHERE habit_id = ? AND user_id = ?
DeleteEntriesOfHabit(entries, habit_id, user_id) ==
    {e \in entries : ~(e.habit_id = habit_id /\ e.user_id = user_id)}

\* DELETE FROM habits WHERE id = ? AND user_id = ?
DeleteHabitRow(hs, habit_id, user_id) ==
    {h \in hs : ~(h.id = habit_id /\ h.user_id = user_id)}

\* request.form.get(..., type=int) / type=float is truthy: present and not zero
Truthy(o) == IsSome(o) /\ o[1] # 0

DeleteHabit(c, habit_id) ==
    \/ RedirectLogin("delete_habit", c, <<habit_id>>)
    \/ /\ LoginRequired(c)
       /\ LET user_id == SessionUserId(c)
          IN  /\ IF Truthy(habit_id)
                 THEN /\ habit_entries' = DeleteEntriesOfHabit(habit_entries, habit_id[1], user_id)
                      /\ habits' = DeleteHabitRow(habits, habit_id[1], user_id)
                      /\ last' = Answer("delete_habit", c, user_id, <<habit_id>>, "ok")
                 ELSE /\ UNCHANGED <<habits, habit_entries>>
                      /\ last' = Answer("delete_habit", c, user_id, <<habit_id>>, "ignored")
              /\ UNCHANGED <<users, reflections, rewards, media, sqlite_sequence, session, today>>
              /\ Render(user_id)

\* if habit_id and hours: the only validation of add_entry
EntryAccepted(habit_id, hours) == Truthy(habit_id) /\ Truthy(hours)

AddEntry(c, habit_id, hours) ==
    \/ RedirectLogin("add_entry", c, <<habit_id, hours>>)
    \/ /\ LoginRequired(c)
       /\ LET user_id == SessionUserId(c)
          IN  /\ IF EntryAccepted(habit_id, hours)
                 THEN /\ habit_entries' = habit_entries \cup
                            {[id |-> NextId("habit_entries"), user_id |-> user_id,
                              habit_id |-> habit_id[1], entry_date |-> today,
                              hours |-> hours[1]]}
                      /\ sqlite_sequence' = Bump("habit_entries")
                      /\ last' = Answer("add_entry", c, user_id, <<habit_id, hours>>, "ok")
                 ELSE /\ UNCHANGED <<habit_entries, sqlite_sequence>>
                      /\ last' = Answer("add_entry", c, user_id, <<habit_id, hours>>, "ignored")
              /\ UNCHANGED <<users, habits, reflections, rewards, media, session, today>>
              /\ Render(user_id)

-----------------------------------------------------------------------------
(* Reward service: the reward actions of dashboard().                      *)

AddReward(c, name, req_type, req_value) ==
    \/ RedirectLogin("add_reward", c, None)
    \/ /\ LoginRequired(c)
       /\ LET user_id == SessionUserId(c)
          IN  /\ UNCHANGED <<users, habits, habit_entries, reflections, media, session, today>>
              /\ IF IsSome(name) /\ IsSome(req_type) /\ IsSome(req_value)
                 THEN /\ rewards' = rewards \cup
                            {[id |-> NextId("rewards"), name |-> name[1],
                              requirement_type |-> req_type[1],
                              requirement_value |-> req_value[1], unlocked |-> 0]}
                      /\ sqlite_sequence' = Bump("rewards")
                      /\ last' = Answer("add_reward", c, user_id, None, "ok")
                      /\ Render(user_id)
                 ELSE \* NOT NULL fails: IntegrityError is not caught, nothing is committed
                      /\ UNCHANGED <<rewards, sqlite_sequence>>
                      /\ last' = Answer("add_reward", c, user_id, None, "error")
                      /\ view' = None

UnlockReward(c, reward_id) ==
    \/ RedirectLogin("unlock_reward", c, <<reward_id>>)
    \/ /\ LoginRequired(c)
       /\ LET user_id == SessionUserId(c)
          IN  /\ rewards' = {IF IsSome(reward_id) /\ r.id = reward_id[1]
                             THEN [r EXCEPT !.unlocked = 1] ELSE r : r \in rewards}
              /\ UNCHANGED <<users, habits, habit_entries, reflections, media,
                             sqlite_sequence, session, today>>
              /\ last' = Answer("unlock_reward", c, user_id, <<reward_id>>, "ok")
              /\ Render(user_id)

DeleteReward(c, reward_id) ==
    \/ RedirectLogin("delete_reward", c, <<reward_id>>)
    \/ /\ LoginRequired(c)
       /\ LET user_id == SessionUserId(c)
          IN  /\ rewards' = {r \in rewards : ~(IsSome(reward_id) /\ r.id = reward_id[1])}
              /\ UNCHANGED <<users, habits, habit_entries, reflections, media,
                             sqlite_sequence, session, today>>
              /\ last' = Answer("delete_reward", c, user_id, <<reward_id>>, "ok")
              /\ Render(user_id)

-----------------------------------------------------------------------------
(* Reflection service, lines 305-336.                                      *)

\* SELECT * FROM reflections WHERE user_id = ? AND entry_date = ?
GetReflection(refl, user_id, day) ==
    {r \in refl : r.user_id = user_id /\ r.entry_date = day}

\* the upsert with win left out of its DO UPDATE SET list
UpsertKeepsWin(refl, id, user_id, day, text, win, improvement, mood) ==
    IF GetReflection(refl, user_id, day) = {}
    THEN refl \cup {[id |-> id, user_id |-> user_id, entry_date |-> day,
                     reflection_text |-> text, win |-> win,
                     improvement |-> improvement, mood |-> mood]}
    ELSE {IF r.user_id = user_id /\ r.entry_date = day
          THEN [r EXCEPT !.reflection_text = text,
                         !.improvement = improvement, !.mood = mood]
          ELSE r : r \in refl}

\* INSERT ... ON CONFLICT(user_id, entry_date) DO UPDATE SET the four fields
Upsert(refl, id, user_id, day, text, win, improvement, mood) ==
    IF GetReflection(refl, user_id, day) = {}
    THEN refl \cup {[id |-> id, user_id |-> user_id, entry_date |-> day,
                     reflection_text |-> text, win |-> win,
                     improvement |-> improvement, mood |-> mood]}
    ELSE {IF r.user_id = user_id /\ r.entry_date = day
          THEN [r EXCEPT !.reflection_text = text, !.win = win,
                         !.improvement = improvement, !.mood = mood]
          ELSE r : r \in refl}

SaveReflection(c, text, win, improvement, mood) ==
    \/ RedirectLogin("save_reflection", c, <<text, win, improvement, mood>>)
    \/ /\ LoginRequired(c)
       /\ LET user_id == SessionUserId(c)
          IN  /\ UNCHANGED <<users, habits, habit_entries, rewards, media, session, today>>
              /\ view' = None
              /\ IF IsSome(mood)
                 THEN /\ reflections' = Upsert(reflections, NextId("reflections"), user_id,
                                               today, text, win, improvement, mood[1])
                      /\ sqlite_sequence' =
                            IF GetReflection(reflections, user_id, today) = {}
                            THEN Bump("reflections") ELSE sqlite_sequence
                      /\ last' = Answer("save_reflection", c, user_id, <<text, win, improvement, mood>>,
                                        IF GetReflection(reflections, user_id, today) = {}
                                        THEN "inserted" ELSE "updated")
                 ELSE \* mood TEXT NOT NULL fails: IntegrityError is not caught
                      /\ UNCHANGED <<reflections, sqlite_sequence>>
                      /\ last' = Answer("save_reflection", c, user_id, <<text, win, improvement, mood>>, "error")

ReflectionGet(c) ==
    \/ RedirectLogin("reflection", c, None)
    \/ /\ LoginRequired(c)
       /\ LET user_id == SessionUserId(c)
              found   == GetReflection(reflections, user_id, today)
          IN  /\ UNCHANGED <<users, store, sqlite_sequence, session, today>>
              /\ last' = Answer("reflection", c, user_id, None, "ok")
              /\ view' = Some([page |-> "reflection", user_id |-> user_id,
                               entry_date |-> today,
                               reflection |-> IF found = {} THEN None
                                              ELSE Some(CHOOSE r \in found : TRUE)])

-----------------------------------------------------------------------------
(* Media review service, lines 339-367.                                    *)

\* column affinity INTEGER of media.rating: the form's text becomes an integer
\* when it is a numeral, and is stored as the text it is otherwise
IntegerAffinity(text) ==
    IF text.numeral THEN [type |-> "integer", val |-> text.val]
                    ELSE [type |-> "text", val |-> text.val]

AddMedia(c, title, media_type, rating, review) ==
    \/ RedirectLogin("add_media", c, None)
    \/ /\ LoginRequired(c)
       /\ LET user_id == SessionUserId(c)
          IN  /\ UNCHANGED <<users, habits, habit_entries, reflections, rewards, session, today>>
              /\ view' = None
              /\ IF IsSome(title) /\ IsSome(media_type) /\ IsSome(rating)
                 THEN /\ media' = media \cup
                            {[id |-> NextId("media"), title |-> title[1],
                              type |-> media_type[1],
                              rating |-> IntegerAffinity(rating[1]),
                              review |-> review]}
                      /\ sqlite_sequence' = Bump("media")
                      /\ last' = Answer("add_media", c, user_id, None, "ok")
                 ELSE \* NOT NULL fails: IntegrityError is not caught
                      /\ UNCHANGED <<media, sqlite_sequence>>
                      /\ last' = Answer("add_media", c, user_id, None, "error")

DeleteMedia(c, media_id) ==
    \/ RedirectLogin("delete_media", c, <<media_id>>)
    \/ /\ LoginRequired(c)
       /\ LET user_id == SessionUserId(c)
          IN  /\ media' = {m \in media : ~(IsSome(media_id) /\ m.id = media_id[1])}
              /\ UNCHANGED <<users, habits, habit_entries, reflections, rewards,
                             sqlite_sequence, session, today>>
              /\ last' = Answer("delete_media", c, user_id, <<media_id>>, "ok")
              /\ view' = None

MediaGet(c) ==
    \/ RedirectLogin("media", c, None)
    \/ /\ LoginRequired(c)
       /\ UNCHANGED <<users, store, sqlite_sequence, session, today>>
       /\ last' = Answer("media", c, SessionUserId(c), None, "ok")
       /\ view' = Some([page |-> "media", user_id |-> SessionUserId(c), entries |-> media])

-----------------------------------------------------------------------------
(* The clock: date.today() moves on between requests.                      *)

Tick ==
    /\ today' = today + 1
    /\ UNCHANGED <<users, store, sqlite_sequence, session, last, view>>

-----------------------------------------------------------------------------
(* Initial state: init_db() on an empty database file, no browser logged in. *)

Init ==
    /\ users = {}
    /\ habits = {}
    /\ habit_entries = {}
    /\ reflections = {}
    /\ rewards = {}
    /\ media = {}
    /\ sqlite_sequence = [t \in Tables |-> 0]
    /\ session = [c \in Clients |-> None]
    /\ today = 0
    /\ last = Answer("none", "none", 0, <<>>, "none")
    /\ view = None

-----------------------------------------------------------------------------
(* Request inputs.                                                         *)

UsernameInputs == {<<>>, <<"u">>, <<"v", " ">>}
PasswordInputs == {"", "p", "q"}
Salts == {"s1"}
TwoUsers == {<<"u">>, <<"v">>}

HabitNameInputs == {<<>>, <<" ">>, <<"a">>, <<" ", "a">>, <<"b">>}
HabitIdInputs == Options(0 .. MaxHabits)
HoursInputs == Options({-1, 0, 1})

\* a reflection form: reflection_text, win, improvement, mood
ReflectionInputs ==
    {<<Some("text1"), Some("win1"), Some("imp1"), Some("happy")>>,
     <<None, None, None, Some("tired")>>,
     <<Some("text2"), Some("win2"), Some("imp2"), None>>}

RatingInputs == Options({[numeral |-> TRUE, val |-> n] : n \in {0, 1, 5, 6}}
                        \cup {[numeral |-> FALSE, val |-> 0]})

\* the ids a table has handed out stay within the bound
Within(t, max) == sqlite_sequence'[t] <= max

\* account requests as every specification has them
Account(cs, names, passwords) ==
    \E c \in cs :
        \/ \E n \in names, p \in passwords, s \in Salts : Signup(c, n, p, s)
        \/ \E n \in names, p \in passwords : Login(c, n, p)
        \/ Logout(c)

-----------------------------------------------------------------------------
(* Specification of habit creation and deletion by two users.              *)

NextHabits ==
    \/ Account({"c1"}, TwoUsers, {"p"})
    \/ \E n \in HabitNameInputs : AddHabit("c1", n) /\ Within("habits", MaxHabits)
    \/ \E h \in HabitIdInputs : DeleteHabit("c1", h)
    \/ DashboardGet("c1")

SpecHabits == Init /\ [][NextHabits]_vars

(* Specification of the entry log: entries of two users over two days.     *)

NextEntries ==
    \/ Account({"c1"}, TwoUsers, {"p"})
    \/ AddHabit("c1", <<"a">>) /\ Within("habits", 1)
    \/ \E h \in Options({0, 1}) : DeleteHabit("c1", h)
    \/ \E h \in Options({0, 1}), x \in HoursInputs :
          AddEntry("c1", h, x) /\ Within("habit_entries", MaxEntries)
    \/ DashboardGet("c1")
    \/ today < 1 /\ Tick

SpecEntries == Init /\ [][NextEntries]_vars

(* Specification of the streak: entries of two users over MaxDay days.     *)

NextStreak ==
    \/ Account({"c1"}, TwoUsers, {"p"})
    \/ AddEntry("c1", Some(1), Some(1)) /\ Within("habit_entries", MaxStreakEntries)
    \/ DashboardGet("c1")
    \/ today < MaxDay /\ Tick

SpecStreak == Init /\ [][NextStreak]_vars

(* Specification of the reflection service.                                *)

NextReflection ==
    \/ Account({"c1"}, TwoUsers, {"p"})
    \/ \E f \in ReflectionInputs : SaveReflection("c1", f[1], f[2], f[3], f[4])
    \/ ReflectionGet("c1")
    \/ today < MaxReflectionDay /\ Tick

SpecReflection == Init /\ [][NextReflection]_vars

(* Specification of the media review service.                              *)

NextMedia ==
    \/ Account({"c1"}, {<<"u">>}, {"p"})
    \/ \E t \in Options({"t"}), r \in RatingInputs :
          AddMedia("c1", t, Some("book"), r, None) /\ Within("media", MaxMedia)
    \/ \E m \in Options(1 .. MaxMedia) : DeleteMedia("c1", m)
    \/ MediaGet("c1")

SpecMedia == Init /\ [][NextMedia]_vars

(* Specification of the writes of two users side by side.                  *)

IsolationRows ==
    sqlite_sequence'["habits"] + sqlite_sequence'["habit_entries"] <= MaxIsolationRows

NextIsolation ==
    \/ Account({"c1"}, TwoUsers, {"p"})
    \/ AddHabit("c1", <<"a">>) /\ IsolationRows
    \/ \E h \in {1, 2} : DeleteHabit("c1", Some(h))
    \/ \E h \in {1, 2} : AddEntry("c1", Some(h), Some(1)) /\ IsolationRows
    \/ \E f \in ReflectionInputs : SaveReflection("c1", f[1], f[2], f[3], f[4])

SpecIsolation == Init /\ [][NextIsolation]_vars

(* Specification of the whole application: every handler, two browsers.    *)

RowsInserted ==
    sqlite_sequence'["habits"] + sqlite_sequence'["habit_entries"]
    + sqlite_sequence'["reflections"] + sqlite_sequence'["rewards"]
    + sqlite_sequence'["media"] <= MaxRows

Next ==
    \/ Account(Clients, UsernameInputs, PasswordInputs)
    \/ \E c \in Clients :
          \/ AddHabit(c, <<"a">>) /\ RowsInserted
          \/ DeleteHabit(c, Some(1))
          \/ AddEntry(c, Some(1), Some(1)) /\ RowsInserted
          \/ DashboardGet(c)
          \/ AddReward(c, Some("r"), Some("streak"), Some(7)) /\ RowsInserted
          \/ UnlockReward(c, Some(1))
          \/ DeleteReward(c, Some(1))
          \/ SaveReflection(c, None, None, None, Some("happy")) /\ RowsInserted
          \/ ReflectionGet(c)
          \/ AddMedia(c, Some("t"), Some("book"),
                      Some([numeral |-> TRUE, val |-> 3]), None) /\ RowsInserted
          \/ DeleteMedia(c, Some(1))
          \/ MediaGet(c)

Spec == Init /\ [][Next]_vars

-----------------------------------------------------------------------------
(* Properties.                                                             *)

\* the step handled a request (the clock did not move) of one of the routes ops
Handled(ops) == last'.op \in ops /\ today' = today

\* the step ran the view of one of the routes ops for a logged-in user
Ran(ops) == Handled(ops) /\ last'.uid # 0

Owns(hs, user_id, habit_id) == \E h \in hs : h.id = habit_id /\ h.user_id = user_id

RowsOf(rows, user_id) == {r \in rows : r.user_id = user_id}
RowsNotOf(rows, user_id) == {r \in rows : r.user_id # user_id}

IsDashboard == IsSome(view) /\ view[1].page = "dashboard"

(* C1: when the owner's delete_habit removes habit h, no habit_entries row  *)
(* with habit_id = h remains, whichever user logged it.                    *)
C1_NoOrphanAfterDelete ==
    [][(/\ Ran({"delete_habit"})
        /\ IsSome(last'.form[1])
        /\ Owns(habits, last'.uid, last'.form[1][1])
        /\ ~Owns(habits', last'.uid, last'.form[1][1]))
       => \A e \in habit_entries' : e.habit_id # last'.form[1][1]]_vars

(* C2: every stored habit_entries row has hours > 0.                       *)
C2_HoursPositive == \A e \in habit_entries : e.hours > 0

(* C3: the streak the dashboard computes for a user is the n such that the *)
(* user has an entry on each of today, ..., today-(n-1) and none on        *)
(* today-n; it is 0 without an entry today, counts no other user's entry,  *)
(* and the walk ends within one lookup per dated day of the user plus one. *)
StreakIs(user_id, n) ==
    LET mine == {e \in habit_entries : e.user_id = user_id}
        days == {e.entry_date : e \in mine}
    IN  /\ n \in Nat
        /\ \A i \in 0 .. (n - 1) : (today - i) \in days
        /\ (today - n) \notin days
        /\ (today \notin days) => n = 0
        /\ n <= Cardinality(days)

C3_Streak ==
    /\ \A u \in users : StreakIs(u.id, ComputeStreak(habit_entries, u.id, today))
    /\ IsDashboard /\ view[1].today = today
          => StreakIs(view[1].user_id, view[1].streak)

\* a rendered streak of 2 that stops at a gap day on which only another user
\* logged, with an older entry of the user beyond the gap
C3_Witness ==
    /\ IsDashboard
    /\ view[1].today = today
    /\ view[1].streak = 2
    /\ \E e \in habit_entries :
          e.user_id = view[1].user_id /\ e.entry_date = today - 3
    /\ \E e \in habit_entries :
          e.user_id # view[1].user_id /\ e.entry_date = today - 2

(* C4: every stored media row has a rating in 1..5.                        *)
C4_RatingInRange ==
    \A m \in media : m.rating.type = "integer" /\ m.rating.val \in 1 .. 5

(* C5: the dashboard's total_hours is the sum of hours over all of the     *)
(* user's habit_entries rows dated today, and each per-habit total is the  *)
(* sum of the user's rows for that habit and date.                         *)
C5_DailyTotal ==
    IsDashboard =>
        LET v    == view[1]
            mine == {e \in habit_entries :
                        e.user_id = v.user_id /\ e.entry_date = v.today}
        IN  /\ v.total_hours = SumHours(mine)
            /\ \A d \in v.habit_data :
                  d.total = SumHours({e \in mine : e.habit_id = d.habit})

(* C6: delete_habit with a habit_id that is not a habit of the requesting  *)
(* user leaves habits and habit_entries unchanged.                         *)
C6_DeleteNotOwnedNoOp ==
    [][(/\ Ran({"delete_habit"})
        /\ ~(IsSome(last'.form[1]) /\ Owns(habits, last'.uid, last'.form[1][1])))
       => (habits' = habits /\ habit_entries' = habit_entries)]_vars

(* C7: at most one reflections row per (user, date); a save with a mood    *)
(* replaces all four fields of the row that exists and keeps the row       *)
(* count, or adds exactly one row when there is none; a save without a     *)
(* mood changes nothing.                                                   *)
OnePerUserAndDate ==
    \A r1, r2 \in reflections :
        (r1.user_id = r2.user_id /\ r1.entry_date = r2.entry_date) => r1 = r2

\* the save of form f by user_id took effect in full
Saved(user_id, f) ==
    LET before == GetReflection(reflections, user_id, today)
        after  == GetReflection(reflections', user_id, today)
    IN  /\ Cardinality(after) = 1
        /\ \A r \in after :
              /\ r.reflection_text = f[1]
              /\ r.win = f[2]
              /\ r.improvement = f[3]
              /\ IsSome(f[4]) /\ r.mood = f[4][1]
        /\ Cardinality(reflections') =
              Cardinality(reflections) + (IF before = {} THEN 1 ELSE 0)
        /\ RowsNotOf(reflections', user_id) = RowsNotOf(reflections, user_id)
        /\ {r \in reflections' : r.entry_date # today}
              = {r \in reflections : r.entry_date # today}

UniqueNamePerUser ==
    \A h1, h2 \in habits :
        (h1.user_id = h2.user_id /\ h1.name = h2.name) => h1 = h2

NamesStripped == \A h \in habits : h.name # <<>> /\ Strip(h.name) = h.name

AddHabitStep ==
    LET name == Strip(last'.form[1])
        dup  == \E h \in habits : h.user_id = last'.uid /\ h.name = name
    IN  /\ IsSome(view') /\ view'[1].page = "dashboard"
        /\ IF name = <<>> \/ dup
           THEN habits' = habits
           ELSE /\ Cardinality(habits') = Cardinality(habits) + 1
                /\ habits \subseteq habits'
                /\ \A h \in habits' \ habits : h.user_id = last'.uid /\ h.name = name

C8_AddHabit ==
    /\ [](UniqueNamePerUser /\ NamesStripped)
    /\ [][Ran({"add_habit"}) => AddHabitStep]_vars

\* two users own a habit of the same name, and a duplicate was just ignored
C8_Witness ==
    /\ \E h1, h2 \in habits : h1.user_id # h2.user_id /\ h1.name = h2.name
    /\ last.op = "add_habit"
    /\ last.status = "ignored"
    /\ Strip(last.form[1]) # <<>>

(* C9: a dashboard, reflection or media request changes the store only     *)
(* while the session of its browser holds a user id; a session's user id   *)
(* is the id of an existing user, set by a successful signup or by a login *)
(* whose password verifies against that user's hash; a failed login leaves *)
(* the sessions unchanged; logout empties the session.                     *)
GatedOps ==
    {"dashboard", "add_habit", "delete_habit", "add_entry", "add_reward",
     "unlock_reward", "delete_reward", "save_reflection", "reflection",
     "add_media", "delete_media", "media"}

SessionsNameUsers ==
    \A c \in Clients :
        IsSome(session[c]) =>
            \E u \in users :
                u.id = session[c][1].user_id /\ u.username = session[c][1].username

WritesNeedSession ==
    store' # store =>
        /\ last'.op \in GatedOps
        /\ last'.client \in Clients
        /\ IsSome(session[last'.client])
        /\ session[last'.client][1].user_id # 0
        /\ last'.uid = session[last'.client][1].user_id

SessionSetByAccount ==
    \A c \in Clients :
        (session'[c] # session[c] /\ IsSome(session'[c])) =>
            /\ last'.client = c
            /\ \/ /\ last'.op = "signup"
                  /\ \A u \in users : u.id # session'[c][1].user_id
                  /\ \E u \in users' : u.id = session'[c][1].user_id
               \/ /\ last'.op = "login"
                  /\ \E u \in users :
                        /\ u.id = session'[c][1].user_id
                        /\ u.username = Strip(last'.form[1])
                        /\ u.password_hash.digest
                              = <<u.password_hash.salt, last'.form[2]>>

FailedLoginKeepsSession ==
    (/\ Handled({"login"})
     /\ ~\E u \in users :
           /\ u.username = Strip(last'.form[1])
           /\ u.password_hash.digest = <<u.password_hash.salt, last'.form[2]>>)
    => session' = session

LogoutEmptiesSession ==
    Handled({"logout"}) =>
        /\ session'[last'.client] = None
        /\ \A c \in Clients \ {last'.client} : session'[c] = session[c]

C9_Authenticated ==
    /\ []SessionsNameUsers
    /\ [][/\ WritesNeedSession
          /\ SessionSetByAccount
          /\ FailedLoginKeepsSession
          /\ LogoutEmptiesSession]_vars

\* after a logout, a write is turned away although the store has a row and
\* the other browser is still logged in
C9_Witness ==
    /\ last.op \in {"add_habit", "add_entry", "save_reflection", "add_media", "add_reward"}
    /\ last.status = "login"
    /\ session[last.client] = None
    /\ \E c \in Clients : IsSome(session[c])
    /\ habits \cup habit_entries \cup reflections \cup media \cup rewards # {}

(* C10: add_habit, delete_habit, add_entry and save_reflection under       *)
(* session user u leave every habits, habit_entries and reflections row of *)
(* another user unchanged, insert only rows with user_id = u, and so leave *)
(* every other user's habits, daily totals, streak and mood as they were.  *)
Isolated(u) ==
    /\ RowsNotOf(habits', u) = RowsNotOf(habits, u)
    /\ RowsNotOf(habit_entries', u) = RowsNotOf(habit_entries, u)
    /\ RowsNotOf(reflections', u) = RowsNotOf(reflections, u)
    /\ \A r \in (habits' \ habits) \cup (habit_entries' \ habit_entries)
                \cup (reflections' \ reflections) : r.user_id = u
    /\ \A v \in users :
          v.id # u =>
            LET before == DashboardView(habits, habit_entries, reflections,
                                        rewards, v.id, today)
                after  == DashboardView(habits', habit_entries', reflections',
                                        rewards', v.id, today)
            IN  /\ after.habit_data = before.habit_data
                /\ after.total_hours = before.total_hours
                /\ after.streak = before.streak
                /\ after.today_mood = before.today_mood

C10_Isolation ==
    [][Ran({"add_habit", "delete_habit", "add_entry", "save_reflection"})
          => Isolated(last'.uid)]_vars

\* a user has deleted their habit while another user's entry logged against
\* it, and the other user's reflection, are still there
C10_Witness ==
    /\ last.op = "delete_habit"
    /\ last.status = "ok"
    /\ IsSome(last.form[1])
    /\ ~\E h \in habits : h.id = last.form[1][1]
    /\ sqlite_sequence["habits"] >= last.form[1][1]
    /\ \E e \in habit_entries : e.user_id # last.uid /\ e.habit_id = last.form[1][1]
    /\ \E r \in reflections : r.user_id # last.uid

=============================================================================
